---- MODULE Spec2Model ----
(***************************************************************************)
(* Static IP proxy server: the HTTP forwarding endpoint and the SFTP       *)
(* session endpoints, in the three server variants of the repository:      *)
(*   "basic"    src/unnamed/part_001 lines 1-165   (HTTP proxy only)       *)
(*   "enhanced" src/unnamed/part_001 lines 167-577 (proxy + SFTP, sessions *)
(*              in the plain object req.app.locals.sftpConnections)        *)
(*   "fixed"    src/foodbuy-integration-package/README.md lines 146-480    *)
(*              (proxy + SFTP, sessions in the Map sftpConnections, SIGINT *)
(*              drain)                                                     *)
(* Every handler is an async function: it runs atomically up to each await *)
(* and is resumed by the event loop when the awaited promise settles.      *)
(***************************************************************************)
EXTENDS Integers, Sequences, FiniteSets, TLC

\* Date.now() readings are 0..MaxClock
MaxClock == 1
\* number of /sftp requests received in one run
MaxReqs == 3
\* remote paths have 1..MaxPathLen characters
MaxPathLen == 3
\* number of upload requests in one run
MaxUploads == 2
\* the most entries a listed directory has
MaxEntries == 3
\* number of HTTP requests served concurrently in one run
MaxInflight == 2

SftpVariants == {"enhanced", "fixed"}

\* value of a failed lookup: obj?.[key] or Map.get(key) without an entry
Undefined == -1
\* a member inherited from Object.prototype (truthy, but no SFTP client)
ProtoMember == 0
\* new Client(): the client created by request r is r
Clients == 1..(MaxReqs + 1)

\* connection ids: <<timestamp, suffix>>; suffix 0 stands for "no suffix"
NoSuffix == 0
\* the values of Math.random().toString(36).substr(2, 9), one per request
Suffixes == 1..(MaxReqs + 1)
\* the route parameter "constructor", a key of Object.prototype
ProtoKey == <<-1, NoSuffix>>
NoId == <<-2, NoSuffix>>
\* a well-formed id that no connect of the run returns
NeverId == <<-3, NoSuffix>>

VARIABLES
    variant,     \* which server variant runs
    now,         \* the last reading of Date.now()
    allocated,   \* enhanced: req.app.locals.sftpConnections is an object
    sftpConnections, \* the session registry: entries [id, client] in insertion order
    reqs,        \* the /sftp requests: position of each handler
    quota,       \* number of requests the callers send in the run
    started,     \* number of requests received so far
    ended,       \* clients whose end() resolved
    closeCalls,  \* per client, the number of end() calls made on it
    drain,       \* the SIGINT handler: pc, iterator position, client awaited
    lastResp,    \* the response sent by the step just taken, if any
    lastIn,      \* the parameters of the request received by the step just taken
    lastLog,     \* the registry size written to the log by the step just taken
    lastConfig,  \* the config handed to sftp.connect by the step just taken
    issued,      \* ids returned by a successful connect
    closedIds,   \* ids for which a disconnect returned success
    opened,      \* number of connects that returned success
    closed,      \* number of disconnects that returned success
    atSignal,    \* the registry as it was when SIGINT arrived
    preq,        \* the /proxy request being served
    outbound,    \* the outbound requests made for it
    dl,          \* a download on a registered session: its path and filename
    ups,         \* uploads on a registered session: position of each handler
    staging,     \* the proxy's local disk: content of each file, if any
    remoteFiles, \* the remote side: content and last writer of each path
    fetched,     \* the last download of a path that an upload reported
    fn,          \* the invocation of the Netlify function being served
    call,        \* the ProxyService call being made
    ls,          \* a list on a registered session: what the remote side and the server returned
    hd           \* per request being served, its handler: route, position and response calls

vars == <<variant, quota, now, allocated, sftpConnections, reqs, started, ended,
          closeCalls, drain, lastResp, lastIn, lastLog, lastConfig, issued, closedIds, opened,
          closed, atSignal, preq, outbound, dl, ups, staging, remoteFiles, fetched,
          fn, call, ls, hd>>

proxyVars == <<preq, outbound>>
dlVars == <<dl>>
upVars == <<ups, staging, remoteFiles, fetched>>
sessionVars == <<allocated, sftpConnections, reqs, started, ended, closeCalls,
                 drain, lastResp, lastIn, lastLog, lastConfig, issued, closedIds, opened,
                 closed, atSignal>>
sftpVars == <<now, sessionVars>>

\* what the handlers of one part of the program leave alone
notSftp == <<proxyVars, dlVars, upVars, fn, call, ls, hd>>
notProxy == <<variant, quota, sftpVars, dlVars, upVars, fn, call, ls, hd>>
notDownload == <<variant, quota, sftpVars, proxyVars, upVars, fn, call, ls, hd>>
notUpload == <<variant, quota, sessionVars, proxyVars, dlVars, fn, call, ls, hd>>
notNetlify == <<variant, quota, sftpVars, proxyVars, dlVars, upVars, call, ls, hd>>
notClient == <<variant, quota, sftpVars, proxyVars, dlVars, upVars, fn, ls, hd>>
notList == <<variant, quota, sftpVars, proxyVars, dlVars, upVars, fn, call, hd>>
notHandlers == <<variant, quota, sftpVars, proxyVars, dlVars, upVars, fn, call, ls>>

\* attempts: the connection attempts made so far by the request's connect
Idle ==
    [pc |-> "idle", kind |-> "none", arg |-> NoId, client |-> Undefined,
     attempts |-> 0]
Retired ==
    [pc |-> "done", kind |-> "none", arg |-> NoId, client |-> Undefined,
     attempts |-> 0]
NoResp ==
    [kind |-> "none", id |-> NoId, status |-> 0, error |-> "", message |-> ""]
\* request parameters; a field is TRUE when the parameter of that name is
\* present and not empty
NoInput ==
    [kind |-> "none", host |-> FALSE, username |-> FALSE, password |-> FALSE,
     privateKey |-> FALSE, path |-> FALSE, remotePath |-> FALSE,
     localPath |-> FALSE, file |-> FALSE]
\* nothing was logged
NoLog == -1

DrainOff == [pc |-> "off", pos |-> 0, client |-> Undefined]
DrainExited == [pc |-> "exited", pos |-> 0, client |-> Undefined]

Exited == drain.pc = "exited"

\* what a caller puts in :connectionId: an id a connect returned, or a
\* string no connect returns
ArgIds ==
    issued \cup {NeverId} \cup (IF variant = "enhanced" THEN {ProtoKey} ELSE {})

----------------------------------------------------------------------------
\* The session registry

Keys == {sftpConnections[i].id : i \in 1..Len(sftpConnections)}
IndexOf(id) == CHOOSE i \in 1..Len(sftpConnections) : sftpConnections[i].id = id
RegisteredClients == {sftpConnections[i].client : i \in 1..Len(sftpConnections)}

\* enhanced: req.app.locals.sftpConnections?.[connectionId], a property read
\* on a plain object (own properties, then Object.prototype);
\* fixed: sftpConnections.get(connectionId)
Lookup(id) ==
    IF variant = "enhanced"
    THEN IF ~allocated THEN Undefined
         ELSE IF id \in Keys THEN sftpConnections[IndexOf(id)].client
         ELSE IF id = ProtoKey THEN ProtoMember
         ELSE Undefined
    ELSE IF id \in Keys THEN sftpConnections[IndexOf(id)].client ELSE Undefined

\* obj[id] = c / map.set(id, c): an existing key keeps its position and gets
\* the new value, a new key is appended
Store(id, c) ==
    IF id \in Keys
    THEN [sftpConnections EXCEPT ![IndexOf(id)] = [id |-> id, client |-> c]]
    ELSE Append(sftpConnections, [id |-> id, client |-> c])

\* delete obj[id] / map.delete(id)
Remove(id) ==
    IF id \in Keys
    THEN SubSeq(sftpConnections, 1, IndexOf(id) - 1)
            \o SubSeq(sftpConnections, IndexOf(id) + 1, Len(sftpConnections))
    ELSE sftpConnections

\* a live Map iterator skips deleted entries: deleting an entry the iterator
\* has passed moves its position back by one
DrainAfterRemove(id) ==
    IF id \in Keys /\ drain.pc = "await" /\ IndexOf(id) <= drain.pos
    THEN [drain EXCEPT !.pos = drain.pos - 1]
    ELSE drain

\* Date.now(): a reading is never below the reading before it. Only the
\* equality of two readings matters, so a later reading is the next value.
DateNow == {t \in {now, now + 1} : t <= MaxClock}

\* the ids generated so far: returned, or held by a connect still in flight
GeneratedSoFar ==
    issued \cup {reqs[q].arg : q \in {x \in DOMAIN reqs : reqs[x].kind = "connect"}}

\* Math.random().toString(36).substr(2, 9): one of 36^9 strings. Two draws
\* are taken to differ (the generator is assumed not to repeat within a run),
\* and suffixes are interchangeable, so a draw is the least suffix not drawn
\* before at this reading.
RandomSuffixes(t) ==
    LET used == {id[2] : id \in {x \in GeneratedSoFar : x[1] = t}} IN
    {s \in Suffixes : s \notin used /\ \A u \in Suffixes : u < s => u \in used}

\* Date.now().toString() (enhanced);
\* `conn_${Date.now()}_${Math.random().toString(36).substr(2, 9)}` (fixed)
GeneratedIds(t) ==
    IF variant = "enhanced" THEN {<<t, NoSuffix>>}
    ELSE {<<t, s>> : s \in RandomSuffixes(t)}

----------------------------------------------------------------------------
\* Responses

\* the `message` field that the response with this `error` field carries;
\* "" when the body has no message field
MessageOf(kind, error) ==
    CASE error = "Missing required parameters" -> "host and username are required"
      [] error = "Missing required fields" -> "Host and username are required"
      [] error = "Authentication required"
            -> "Either password or privateKey must be provided"
      [] error = "Connection not found"
            -> IF variant = "fixed"
               THEN "Connection ${connectionId} not found or expired"
               ELSE "SFTP connection not found or expired"
      [] error = "Missing remote path"
            -> IF kind = "download"
               THEN "Please provide the remote file path using ?path= parameter"
               ELSE "Please provide the remote destination path"
      [] error = "No file uploaded" -> "Please upload a file"
      [] error = "Missing target URL"
            -> "Please provide a target URL using ?url= parameter"
      [] error = "Invalid URL" -> "Please provide a valid URL"
      [] error \in {"SFTP connection failed", "Failed to list files",
                    "Failed to download file", "Failed to upload file",
                    "Failed to disconnect", "SFTP list failed",
                    "SFTP download failed", "SFTP upload failed",
                    "SFTP disconnect failed"} -> "error.message"
      [] error \in {"Missing remotePath parameter",
                    "Missing remotePath or localPath",
                    "Missing url parameter"} -> ""
      [] OTHER -> ""

Respond(r, kind, id, status, error) ==
    /\ reqs' = [reqs EXCEPT ![r] = Retired]
    /\ lastResp' = [kind |-> kind, id |-> id, status |-> status, error |-> error,
                    message |-> MessageOf(kind, error)]

NotFound(r, kind, id) == Respond(r, kind, id, 404, "Connection not found")

Receive(r) ==
    /\ ~Exited
    /\ r = started + 1
    /\ r <= quota
    /\ started' = r

Resume(r, kind, pc) ==
    /\ ~Exited
    /\ reqs[r].pc = pc
    /\ reqs[r].kind = kind

----------------------------------------------------------------------------
\* POST /sftp/connect

\* const { host, port, username, password, privateKey } = req.body
ConnectBodies ==
    {[NoInput EXCEPT !.kind = "connect", !.host = h, !.username = u,
                     !.password = pw, !.privateKey = k] :
        h \in BOOLEAN, u \in BOOLEAN, pw \in BOOLEAN, k \in BOOLEAN}

MissingFieldsError ==
    IF variant = "enhanced" THEN "Missing required parameters"
    ELSE "Missing required fields"

MissingFieldsHostOnly(body) == ~body.host

\* if (!host || !username)
MissingFields(body) == ~body.host \/ ~body.username

\* if (password) ... else if (privateKey) ... else: neither was supplied
MissingAuth(body) == ~body.password /\ ~body.privateKey

\* the authentication members of the config: which of them it has
NoConfig == [password |-> FALSE, privateKey |-> FALSE]

AuthConfigBoth(body) ==
    [password |-> body.password, privateKey |-> body.privateKey]

\* if (password) config.password = password
\* else if (privateKey) config.privateKey = privateKey
AuthConfig(body) ==
    [password |-> body.password,
     privateKey |-> ~body.password /\ body.privateKey]

\* retries: 2 in the config the enhanced server hands to sftp.connect
Retries == 2

\* up to `await sftp.connect(config)`; the fixed variant generates the id
\* before the await, the enhanced variant after it
Connect(r) ==
    /\ Receive(r)
    /\ \E body \in ConnectBodies :
        /\ lastIn' = body
        /\ lastLog' = NoLog
        /\ lastConfig' = IF MissingFields(body) \/ MissingAuth(body)
                         THEN NoConfig ELSE AuthConfig(body)
        /\ IF MissingFields(body)
           THEN /\ Respond(r, "connect", NoId, 400, MissingFieldsError)
                /\ UNCHANGED now
           ELSE \E t \in (IF variant = "fixed" THEN DateNow ELSE {now}) :
                \E id \in GeneratedIds(t) :
                   /\ now' = t
                   /\ IF MissingAuth(body)
                      THEN Respond(r, "connect", NoId, 400, "Authentication required")
                      ELSE /\ reqs' = [reqs EXCEPT ![r] =
                                  [pc |-> "awaitConnect", kind |-> "connect",
                                   arg |-> IF variant = "enhanced" THEN NoId ELSE id,
                                   client |-> r, attempts |-> 1]]
                           /\ lastResp' = NoResp
    /\ UNCHANGED <<variant, quota, allocated, sftpConnections, ended, closeCalls,
                   drain, issued, closedIds,
                   opened, closed, atSignal>>
    /\ UNCHANGED notSftp

\* a connection attempt failed and the client library, told retries: 2,
\* makes the next attempt before sftp.connect settles
ConnectRetry(r) ==
    /\ Resume(r, "connect", "awaitConnect")
    /\ variant = "enhanced"
    /\ reqs[r].attempts < 1 + Retries
    /\ reqs' = [reqs EXCEPT ![r].attempts = @ + 1]
    /\ lastResp' = NoResp
    /\ lastIn' = NoInput
    /\ lastLog' = NoLog
    /\ lastConfig' = NoConfig
    /\ UNCHANGED <<variant, quota, now, allocated, sftpConnections, started, ended,
                   closeCalls, drain, issued, closedIds,
                   opened, closed, atSignal>>
    /\ UNCHANGED notSftp

\* the id of the session: generated now (enhanced) or before the await (fixed)
SessionIds(r) ==
    IF variant = "enhanced"
    THEN UNION {GeneratedIds(t) : t \in DateNow}
    ELSE {reqs[r].arg}

\* sftp.connect resolved: store the client under the id and answer
ConnectOk(r) ==
    /\ Resume(r, "connect", "awaitConnect")
    /\ \E id \in SessionIds(r) :
          /\ now' = IF variant = "enhanced" THEN id[1] ELSE now
          /\ allocated' = TRUE
          /\ sftpConnections' = Store(id, reqs[r].client)
          /\ issued' = issued \cup {id}
          /\ Respond(r, "connect", id, 200, "")
    /\ opened' = opened + 1
    /\ UNCHANGED <<variant, quota, started, ended, closeCalls, drain, closedIds,
                   closed, atSignal>>
    /\ lastIn' = NoInput
    /\ lastLog' = NoLog
    /\ lastConfig' = NoConfig
    /\ UNCHANGED notSftp

ConnectFailStoring(r) ==
    /\ Resume(r, "connect", "awaitConnect")
    /\ \E id \in SessionIds(r) :
          /\ allocated' = TRUE
          /\ sftpConnections' = Store(id, reqs[r].client)
    /\ Respond(r, "connect", NoId, 500, "SFTP connection failed")
    /\ UNCHANGED <<variant, quota, now, started, ended, closeCalls, drain,
                   issued, closedIds,
                   opened, closed, atSignal>>
    /\ lastIn' = NoInput
    /\ lastLog' = NoLog
    /\ lastConfig' = NoConfig
    /\ UNCHANGED notSftp

\* sftp.connect rejected: the catch block answers 500
ConnectFail(r) ==
    /\ Resume(r, "connect", "awaitConnect")
    /\ Respond(r, "connect", NoId, 500, "SFTP connection failed")
    /\ UNCHANGED <<variant, quota, now, allocated, sftpConnections, started, ended,
                   closeCalls, drain, issued, closedIds,
                   opened, closed, atSignal>>
    /\ lastIn' = NoInput
    /\ lastLog' = NoLog
    /\ lastConfig' = NoConfig
    /\ UNCHANGED notSftp

----------------------------------------------------------------------------
\* GET /sftp/list, GET /sftp/download, POST /sftp/upload

FailError(kind) ==
    IF variant = "enhanced"
    THEN CASE kind = "list" -> "Failed to list files"
           [] kind = "download" -> "Failed to download file"
           [] kind = "upload" -> "Failed to upload file"
           [] OTHER -> "Failed to disconnect"
    ELSE CASE kind = "list" -> "SFTP list failed"
           [] kind = "download" -> "SFTP download failed"
           [] kind = "upload" -> "SFTP upload failed"
           [] OTHER -> "SFTP disconnect failed"

\* from the lookup to the await of the remote operation. A value inherited
\* from Object.prototype passes `if (!sftp)`; calling sftp.list / get / put /
\* end on it throws a TypeError inside the try block, answered by the catch.
UseSession(r, kind, id) ==
    LET c == Lookup(id) IN
    IF c = Undefined THEN NotFound(r, kind, id)
    ELSE IF c = ProtoMember THEN Respond(r, kind, id, 500, FailError(kind))
    ELSE /\ reqs' = [reqs EXCEPT ![r] =
                [pc |-> "awaitOp", kind |-> kind, arg |-> id, client |-> c,
                 attempts |-> 0]]
         /\ lastResp' = NoResp

List(r) ==
    /\ Receive(r)
    /\ \E id \in ArgIds : UseSession(r, "list", id)
    /\ lastIn' = [NoInput EXCEPT !.kind = "list"]
    /\ lastLog' = NoLog
    /\ lastConfig' = NoConfig
    /\ UNCHANGED <<variant, quota, now, allocated, sftpConnections, ended, closeCalls,
                   drain, issued, closedIds,
                   opened, closed, atSignal>>
    /\ UNCHANGED notSftp

MissingPathError ==
    IF variant = "enhanced" THEN "Missing remote path"
    ELSE "Missing remotePath parameter"

\* the query of a download: ?path= and ?remotePath=
DownloadQueries ==
    {[NoInput EXCEPT !.kind = "download", !.path = p, !.remotePath = q] :
        p \in BOOLEAN, q \in BOOLEAN}

\* enhanced: const { path: remotePath } = req.query;
\* fixed: const { remotePath, localPath } = req.query
DownloadPath(query) ==
    IF variant = "enhanced" THEN query.path ELSE query.remotePath

DownloadLookupFirst(r) ==
    /\ Receive(r)
    /\ \E id \in ArgIds, query \in DownloadQueries :
        /\ lastIn' = query
        /\ lastLog' = NoLog
        /\ lastConfig' = NoConfig
        /\ IF Lookup(id) = Undefined THEN NotFound(r, "download", id)
           ELSE IF ~DownloadPath(query)
           THEN Respond(r, "download", id, 400, MissingPathError)
           ELSE UseSession(r, "download", id)
    /\ UNCHANGED <<variant, quota, now, allocated, sftpConnections, ended, closeCalls,
                   drain, issued, closedIds,
                   opened, closed, atSignal>>
    /\ UNCHANGED notSftp

Download(r) ==
    /\ Receive(r)
    /\ \E id \in ArgIds, query \in DownloadQueries :
        /\ lastIn' = query
        /\ lastLog' = NoLog
        /\ lastConfig' = NoConfig
        /\ IF ~DownloadPath(query)
           THEN Respond(r, "download", id, 400, MissingPathError)
           ELSE UseSession(r, "download", id)
    /\ UNCHANGED <<variant, quota, now, allocated, sftpConnections, ended, closeCalls,
                   drain, issued, closedIds,
                   opened, closed, atSignal>>
    /\ UNCHANGED notSftp

\* an upload request: the multipart file part `file` and the body fields
\* path, remotePath and localPath. Each server reads one of file and
\* localPath and ignores the other: a caller that sends content sends it
\* under both
UploadRequests ==
    {[NoInput EXCEPT !.kind = "upload", !.file = f, !.path = p,
                     !.remotePath = q, !.localPath = f] :
        f \in BOOLEAN, p \in BOOLEAN, q \in BOOLEAN}

\* enhanced: req.file (multer) and req.body.path;
\* fixed: req.body.localPath and req.body.remotePath
Upload(r) ==
    /\ Receive(r)
    /\ \E id \in ArgIds, body \in UploadRequests :
        /\ lastIn' = body
        /\ lastLog' = NoLog
        /\ lastConfig' = NoConfig
        /\ IF variant = "enhanced" /\ ~body.file
           THEN Respond(r, "upload", id, 400, "No file uploaded")
           ELSE IF variant = "enhanced" /\ ~body.path
           THEN Respond(r, "upload", id, 400, "Missing remote path")
           ELSE IF variant = "fixed" /\ (~body.remotePath \/ ~body.localPath)
           THEN Respond(r, "upload", id, 400, "Missing remotePath or localPath")
           ELSE UseSession(r, "upload", id)
    /\ UNCHANGED <<variant, quota, now, allocated, sftpConnections, ended, closeCalls,
                   drain, issued, closedIds,
                   opened, closed, atSignal>>
    /\ UNCHANGED notSftp

OpKinds == {"list", "download", "upload"}

\* the remote operation resolved
OpOk(r) ==
    /\ \E kind \in OpKinds : Resume(r, kind, "awaitOp")
    /\ reqs[r].client \notin ended
    /\ Respond(r, reqs[r].kind, reqs[r].arg, 200, "")
    /\ UNCHANGED <<variant, quota, now, allocated, sftpConnections, started, ended,
                   closeCalls, drain, issued, closedIds,
                   opened, closed, atSignal>>
    /\ lastIn' = NoInput
    /\ lastLog' = NoLog
    /\ lastConfig' = NoConfig
    /\ UNCHANGED notSftp

\* the variant of OpFail whose catch block also drops the entry of the id
OpFailRemoving(r) ==
    /\ \E kind \in OpKinds : Resume(r, kind, "awaitOp")
    /\ Respond(r, reqs[r].kind, reqs[r].arg, 500, FailError(reqs[r].kind))
    /\ sftpConnections' = Remove(reqs[r].arg)
    /\ UNCHANGED <<variant, quota, now, allocated, started, ended,
                   closeCalls, drain, issued, closedIds,
                   opened, closed, atSignal>>
    /\ lastIn' = NoInput
    /\ lastLog' = NoLog
    /\ lastConfig' = NoConfig
    /\ UNCHANGED notSftp

\* the remote operation rejected, or (enhanced upload) fs.unlinkSync threw
\* after the remote write: the catch block answers 500
OpFail(r) ==
    /\ \E kind \in OpKinds : Resume(r, kind, "awaitOp")
    /\ Respond(r, reqs[r].kind, reqs[r].arg, 500, FailError(reqs[r].kind))
    /\ UNCHANGED <<variant, quota, now, allocated, sftpConnections, started, ended,
                   closeCalls, drain, issued, closedIds,
                   opened, closed, atSignal>>
    /\ lastIn' = NoInput
    /\ lastLog' = NoLog
    /\ lastConfig' = NoConfig
    /\ UNCHANGED notSftp

----------------------------------------------------------------------------
\* POST /sftp/disconnect

\* from the lookup to `await sftp.end()`
Disconnect(r) ==
    /\ Receive(r)
    /\ \E id \in ArgIds :
        LET c == Lookup(id) IN
        IF c = Undefined
        THEN NotFound(r, "disconnect", id) /\ UNCHANGED closeCalls
        ELSE IF c = ProtoMember
        THEN /\ Respond(r, "disconnect", id, 500, FailError("disconnect"))
             /\ UNCHANGED closeCalls
        ELSE /\ reqs' = [reqs EXCEPT ![r] =
                    [pc |-> "awaitEnd", kind |-> "disconnect", arg |-> id,
                     client |-> c, attempts |-> 0]]
             /\ closeCalls' = [closeCalls EXCEPT ![c] = @ + 1]
             /\ lastResp' = NoResp
    /\ UNCHANGED <<variant, quota, now, allocated, sftpConnections, ended, drain, issued,
                   closedIds,
                   opened, closed, atSignal>>
    /\ lastIn' = [NoInput EXCEPT !.kind = "disconnect"]
    /\ lastLog' = NoLog
    /\ lastConfig' = NoConfig
    /\ UNCHANGED notSftp

\* end() resolved: delete the entry and answer success
DisconnectOk(r) ==
    /\ Resume(r, "disconnect", "awaitEnd")
    /\ ended' = ended \cup {reqs[r].client}
    /\ sftpConnections' = Remove(reqs[r].arg)
    /\ drain' = DrainAfterRemove(reqs[r].arg)
    /\ closedIds' = closedIds \cup {reqs[r].arg}
    /\ Respond(r, "disconnect", reqs[r].arg, 200, "")
    /\ closed' = closed + 1
    /\ UNCHANGED <<variant, quota, now, allocated, started, closeCalls, issued,
                   opened, atSignal>>
    /\ lastIn' = NoInput
    /\ lastLog' = NoLog
    /\ lastConfig' = NoConfig
    /\ UNCHANGED notSftp

\* end() rejected: the delete is skipped and the catch block answers 500
DisconnectFail(r) ==
    /\ Resume(r, "disconnect", "awaitEnd")
    /\ Respond(r, "disconnect", reqs[r].arg, 500, FailError("disconnect"))
    /\ UNCHANGED <<variant, quota, now, allocated, sftpConnections, started, ended,
                   closeCalls, drain, issued, closedIds,
                   opened, closed, atSignal>>
    /\ lastIn' = NoInput
    /\ lastLog' = NoLog
    /\ lastConfig' = NoConfig
    /\ UNCHANGED notSftp

----------------------------------------------------------------------------
\* process.on('SIGINT') of the fixed variant:
\*   for (const [connectionId, sftpClient] of sftpConnections) {
\*     try { await sftpClient.end() } catch (error) { ... } }
\*   process.exit(0)

\* an iterator over a copy of the registry taken at the signal: entries
\* registered later are not visited
DrainNextSnapshot(passed) ==
    IF /\ passed < Len(sftpConnections)
       /\ \/ drain.pc = "off"
          \/ \E i \in 1..Len(atSignal) : atSignal[i] = sftpConnections[passed + 1]
    THEN LET c == sftpConnections[passed + 1].client IN
         /\ closeCalls' = [closeCalls EXCEPT ![c] = @ + 1]
         /\ drain' = [pc |-> "await", pos |-> passed + 1, client |-> c]
    ELSE /\ drain' = DrainExited
         /\ UNCHANGED closeCalls

\* the iterator's next step after `passed` entries: call end() on the next
\* entry and await it, or leave the loop and exit
DrainNext(passed) ==
    IF passed < Len(sftpConnections)
    THEN LET c == sftpConnections[passed + 1].client IN
         /\ closeCalls' = [closeCalls EXCEPT ![c] = @ + 1]
         /\ drain' = [pc |-> "await", pos |-> passed + 1, client |-> c]
    ELSE /\ drain' = DrainExited
         /\ UNCHANGED closeCalls

\* the setInterval callback: console.log of sftpConnections.size
Tick ==
    /\ variant = "fixed"
    /\ ~Exited
    /\ lastLog' = Len(sftpConnections)
    /\ lastConfig' = NoConfig
    /\ lastResp' = NoResp
    /\ lastIn' = NoInput
    /\ UNCHANGED <<variant, quota, now, allocated, sftpConnections, reqs, started, ended,
                   closeCalls, drain, issued, closedIds, opened, closed,
                   atSignal>>
    /\ UNCHANGED notSftp

Sigint ==
    /\ variant = "fixed"
    /\ drain.pc = "off"
    /\ DrainNext(0)
    /\ lastResp' = NoResp
    /\ atSignal' = sftpConnections
    /\ UNCHANGED <<variant, quota, now, allocated, sftpConnections, reqs, started, ended,
                   issued, closedIds,
                   opened, closed>>
    /\ lastIn' = NoInput
    /\ lastLog' = NoLog
    /\ lastConfig' = NoConfig
    /\ UNCHANGED notSftp

DrainCloseFailExits ==
    /\ drain.pc = "await"
    /\ drain' = DrainExited
    /\ lastResp' = NoResp
    /\ UNCHANGED <<variant, quota, now, allocated, sftpConnections, reqs, started, ended,
                   closeCalls, issued, closedIds, opened, closed, atSignal>>
    /\ lastIn' = NoInput
    /\ lastLog' = NoLog
    /\ lastConfig' = NoConfig
    /\ UNCHANGED notSftp

\* the awaited end() resolved
DrainCloseOk ==
    /\ drain.pc = "await"
    /\ ended' = ended \cup {drain.client}
    /\ DrainNext(drain.pos)
    /\ lastResp' = NoResp
    /\ UNCHANGED <<variant, quota, now, allocated, sftpConnections, reqs, started,
                   issued, closedIds,
                   opened, closed, atSignal>>
    /\ lastIn' = NoInput
    /\ lastLog' = NoLog
    /\ lastConfig' = NoConfig
    /\ UNCHANGED notSftp

\* the awaited end() rejected: the catch logs it and the loop goes on
DrainCloseFail ==
    /\ drain.pc = "await"
    /\ DrainNext(drain.pos)
    /\ lastResp' = NoResp
    /\ UNCHANGED <<variant, quota, now, allocated, sftpConnections, reqs, started, ended,
                   issued, closedIds,
                   opened, closed, atSignal>>
    /\ lastIn' = NoInput
    /\ lastLog' = NoLog
    /\ lastConfig' = NoConfig
    /\ UNCHANGED notSftp

----------------------------------------------------------------------------
\* /proxy?url=<target>

Variants == {"basic", "enhanced", "fixed"}
Methods == {"GET", "POST", "PUT", "DELETE", "PATCH"}

\* the strings a caller puts in ?url=: scheme, "//" when there is a scheme,
\* host, path and query concatenated; all parts empty is the empty (or
\* missing) parameter
UrlStrings ==
    [scheme : {"", "https:"}, host : {"", "api.example.com"},
     path : {"", "/data"}, query : {"", "?k=v"}]

\* !targetUrl
IsEmpty(u) == u.scheme = "" /\ u.host = "" /\ u.path = "" /\ u.query = ""

\* new URL(targetUrl) returns (does not throw): there is a scheme, and
\* after "https://" a host (a path segment is taken for it when the host part
\* is empty)
UrlParses(u) == u.scheme # "" /\ (u.host # "" \/ u.path # "")

Absent == "(absent)"
ClientIp == "req.ip"
ProxySource == "static-ip-proxy"
HeaderNames == {"x-forwarded-for", "x-real-ip", "x-proxy-source"}
\* the headers of these names a caller can send
CallerHeaders == [HeaderNames -> {Absent, "caller value"}]

\* onProxyReq: proxyReq.setHeader(name, value) for each of these
Injected ==
    IF variant = "fixed"
    THEN [h \in HeaderNames |->
            CASE h = "x-forwarded-for" -> ClientIp
              [] h = "x-proxy-source" -> ProxySource
              [] OTHER -> Absent]
    ELSE [h \in HeaderNames |->
            CASE h = "x-forwarded-for" -> ClientIp
              [] h = "x-real-ip" -> ClientIp
              [] OTHER -> Absent]

\* headers written one after the other: the later write of a name wins
WriteHeaders(first, later) ==
    [h \in HeaderNames |-> IF later[h] # Absent THEN later[h] ELSE first[h]]

OutgoingHeadersCallerLast(callerHeaders) == WriteHeaders(Injected, callerHeaders)

\* the proxy request is created with the caller's headers, then onProxyReq
\* sets the attribution headers on it
OutgoingHeaders(callerHeaders) == WriteHeaders(callerHeaders, Injected)

\* err.message of a failed outbound request
Causes == {"connect ECONNREFUSED", "getaddrinfo ENOTFOUND"}
\* err.message when the proxyTimeout timer aborts the outbound request
HangUp == "socket hang up"

NoProxyRequest ==
    [pc |-> "idle", method |-> "", url |-> [scheme |-> "", host |-> "",
     path |-> "", query |-> ""], headers |-> [h \in HeaderNames |-> Absent],
     upstream |-> 0, cause |-> "",
     status |-> 0, error |-> "", message |-> "", details |-> ""]

\* answered by the handler itself, before any forward
Reject(req, status, error) ==
    /\ preq' = [req EXCEPT !.pc = "done", !.status = status, !.error = error,
                            !.message = MessageOf("proxy", error)]
    /\ outbound' = <<>>

\* a request line as the sequence of its non-empty parts
Parts(seq) == SelectSeq(seq, LAMBDA x : x # "")

\* req.url of a request to the proxy endpoint: the routing prefix, then the
\* query string with the url parameter
ProxyPrefix == "/proxy"
UrlParameter == "?url=<targetUrl>"
RequestUrl == <<ProxyPrefix, UrlParameter>>

\* pathRewrite: { '^/proxy': '' }
PathRewrite(url) ==
    IF url # <<>> /\ Head(url) = ProxyPrefix THEN Tail(url) ELSE url

\* the path and query of the target URL
TargetPath(u) == Parts(<<u.path, u.query>>)

\* the request line of the outbound request: the target's path and query,
\* then what the rewrite left of req.url (no ignorePath option is set)
OutgoingPath(u) == TargetPath(u) \o PathRewrite(RequestUrl)

\* createProxyMiddleware({..., target: targetUrl}) applied to the request:
\* the outbound request to the target is created and sent
Forward(req) ==
    /\ preq' = [req EXCEPT !.pc = "forwarding"]
    /\ outbound' = <<[method |-> req.method, target |-> req.url,
                      path |-> OutgoingPath(req.url),
                      headers |-> OutgoingHeaders(req.headers)]>>

\* basic and enhanced: app.use('/proxy', ...), every method
UseProxy(req) ==
    IF IsEmpty(req.url) THEN Reject(req, 400, "Missing target URL")
    ELSE IF ~UrlParses(req.url) THEN Reject(req, 400, "Invalid URL")
    ELSE Forward(req)

\* fixed: app.get('/proxy', ...); another method matches no route and gets
\* Express's 404
GetProxy(req) ==
    IF req.method # "GET" THEN Reject(req, 404, "Cannot " \o req.method)
    ELSE IF IsEmpty(req.url) THEN Reject(req, 400, "Missing url parameter")
    ELSE Forward(req)

\* a request arrives and its handler runs up to the forward
ProxyRequest ==
    /\ preq.pc \in {"idle", "done"}
    /\ \E m \in Methods, u \in UrlStrings, hs \in CallerHeaders :
        LET req == [NoProxyRequest EXCEPT !.method = m, !.url = u, !.headers = hs]
        IN IF variant = "fixed" THEN GetProxy(req) ELSE UseProxy(req)
    /\ UNCHANGED notProxy

UpstreamStatuses == {200, 404, 500}

\* the target answers the outbound request
TargetResponds ==
    /\ preq.pc = "forwarding"
    /\ \E st \in UpstreamStatuses :
          preq' = [preq EXCEPT !.pc = "responded", !.upstream = st]
    /\ UNCHANGED outbound
    /\ UNCHANGED notProxy

ProxyResponseOk ==
    /\ preq.pc = "responded"
    /\ preq' = [preq EXCEPT !.pc = "done", !.status = 200]
    /\ UNCHANGED outbound
    /\ UNCHANGED notProxy

\* the proxy middleware writes the target's status line to the caller
ProxyResponse ==
    /\ preq.pc = "responded"
    /\ preq' = [preq EXCEPT !.pc = "done", !.status = preq.upstream]
    /\ UNCHANGED outbound
    /\ UNCHANGED notProxy

\* onError(err, req, res): res.status(500).json({...})
OnError(cause) ==
    /\ preq' = IF variant = "fixed"
               THEN [preq EXCEPT !.pc = "done", !.cause = cause, !.status = 500,
                        !.error = "Proxy error", !.message = cause]
               ELSE [preq EXCEPT !.pc = "done", !.cause = cause, !.status = 500,
                        !.error = "Proxy error",
                        !.message = "Failed to proxy request", !.details = cause]
    /\ UNCHANGED outbound

ProxyErrorRetrying ==
    /\ preq.pc = "forwarding"
    /\ \/ \E cause \in Causes : OnError(cause)
       \/ /\ Len(outbound) < 2
          /\ outbound' = Append(outbound, outbound[1])
          /\ UNCHANGED preq
    /\ UNCHANGED notProxy

\* the outbound request failed at transport level: the 'error' event of the
\* proxy calls onError
ProxyError ==
    /\ preq.pc = "forwarding"
    /\ \E cause \in Causes : OnError(cause)
    /\ UNCHANGED notProxy

\* proxyTimeout: 30000 (basic and enhanced proxyOptions; the fixed server
\* sets no timeout): the timer aborts the outbound request, which fails
ProxyTimeout ==
    /\ variant # "fixed"
    /\ preq.pc = "forwarding"
    /\ OnError(HangUp)
    /\ UNCHANGED notProxy

----------------------------------------------------------------------------
\* The filename of a download:
\*   const data = await sftp.get(remotePath);
\*   res.setHeader('Content-Disposition', `attachment; filename="${filename}"`)

\* a path is the sequence of its characters
PathChars == {"/", "a", "b"}
RemotePaths == UNION {[1..n -> PathChars] : n \in 1..MaxPathLen}

\* the greatest index of p, at most `last`, whose character is (isSlash) or
\* is not (~isSlash) a slash; 0 when there is none
LastIndex(p, last, isSlash) ==
    LET S == {i \in 1..last : (p[i] = "/") = isSlash} IN
    IF S = {} THEN 0 ELSE CHOOSE i \in S : \A j \in S : j <= i

\* path.basename(remotePath) on a POSIX host: trailing slashes are dropped,
\* then the characters after the last slash are taken
Basename(p) ==
    LET end == LastIndex(p, Len(p), FALSE) IN
    IF end = 0 THEN <<>>
    ELSE SubSeq(p, LastIndex(p, end, TRUE) + 1, end)

\* remotePath.split('/').pop(): the characters after the last slash
SplitPop(p) == SubSeq(p, LastIndex(p, Len(p), TRUE) + 1, Len(p))

\* enhanced: const filename = path.basename(remotePath);
\* fixed: const filename = remotePath.split('/').pop()
Filename(p) == IF variant = "enhanced" THEN Basename(p) ELSE SplitPop(p)

\* read: the state of sftp.get; headers: the names given to res.setHeader
\* so far; status and body: what was sent to the caller
NoDownload ==
    [pc |-> "idle", remotePath |-> <<>>, filename |-> <<>>, read |-> "none",
     headers |-> {}, status |-> 0, body |-> ""]

DownloadHeaders == {"Content-Disposition", "Content-Type"}

DownloadGetHeadersFirst ==
    /\ dl.pc # "reading"
    /\ \E remotePath \in RemotePaths :
          dl' = [NoDownload EXCEPT !.pc = "reading", !.remotePath = remotePath,
                                   !.read = "pending",
                                   !.headers = DownloadHeaders]
    /\ UNCHANGED notDownload

\* a download with a registered id and a remote path, up to the await
DownloadGet ==
    /\ dl.pc # "reading"
    /\ \E remotePath \in RemotePaths :
          dl' = [NoDownload EXCEPT !.pc = "reading", !.remotePath = remotePath,
                                   !.read = "pending"]
    /\ UNCHANGED notDownload

\* sftp.get resolved: the headers are set and the data is sent
DownloadSend ==
    /\ dl.pc = "reading"
    /\ dl' = [dl EXCEPT !.pc = "sent", !.filename = Filename(dl.remotePath),
                        !.read = "ok", !.headers = DownloadHeaders,
                        !.status = 200, !.body = "binary"]
    /\ UNCHANGED notDownload

\* sftp.get rejected: the catch block answers 500, no header is set
DownloadGetFail ==
    /\ dl.pc = "reading"
    /\ dl' = [dl EXCEPT !.pc = "failed", !.read = "failed", !.status = 500,
                        !.body = "json"]
    /\ UNCHANGED notDownload

----------------------------------------------------------------------------
\* POST /sftp/upload/:connectionId on a registered session, with the
\* parameters the server requires, and the download of what it wrote

Uploads == 1..MaxUploads
\* the content sent with upload u is u
NoFile == 0
\* the content of a file that is on the proxy's disk from the start
OwnContent == -1
\* file.originalname
Names == {"a.csv", "b.csv"}
\* a remote path is the sequence of its separators and segments
Dirs == {<<"/", "in">>, <<"/", "in", "/">>}
NoPath == <<>>

\* ./uploads/<Date.now()>-<originalname>: the files multer stages
StagedFiles == (0..MaxClock) \X Names
\* files of the proxy's own disk that a caller of the fixed variant can name
OwnFiles == {-1} \X Names
LocalFiles == StagedFiles \cup OwnFiles

RECURSIVE Normalize(_)
\* path.posix.normalize on paths without "." and "..": runs of slashes
\* become one slash
Normalize(p) ==
    IF Len(p) <= 1 THEN p
    ELSE IF p[1] = "/" /\ p[2] = "/" THEN Normalize(Tail(p))
    ELSE <<p[1]>> \o Normalize(Tail(p))

\* path.posix.join(remotePath, req.file.originalname)
PosixJoin(dir, name) == Normalize(dir \o <<"/", name>>)

UploadTargets == Dirs \cup {PosixJoin(d, n) : d \in Dirs, n \in Names}

NoRemoteFile == [content |-> NoFile, writer |-> 0]
NoFetch == [of |-> 0, path |-> NoPath, data |-> NoFile]
NoUpload ==
    [pc |-> "idle", dir |-> NoPath, name |-> "", content |-> NoFile,
     localPath |-> <<-2, "">>, sending |-> NoFile, written |-> NoPath,
     wrote |-> FALSE, unlinked |-> FALSE, status |-> 0, reported |-> NoPath]

\* enhanced: upload.single('file') writes the file part to
\* ./uploads/<Date.now()>-<originalname> before the handler runs
UploadStage(u) ==
    /\ variant = "enhanced"
    /\ ups[u].pc = "idle"
    /\ \E t \in DateNow, n \in Names, d \in Dirs :
          /\ now' = t
          /\ staging' = [staging EXCEPT ![<<t, n>>] = u]
          /\ ups' = [ups EXCEPT ![u] =
                [NoUpload EXCEPT !.pc = "staged", !.dir = d, !.name = n,
                                 !.content = u, !.localPath = <<t, n>>]]
    /\ UNCHANGED <<remoteFiles, fetched>>
    /\ UNCHANGED notUpload

\* the call sftp.put(localPath, target): the local file is opened and read
PutCall(u, up, target) ==
    /\ ups' = [ups EXCEPT ![u] =
          [up EXCEPT !.pc = "putting", !.written = target,
                     !.sending = staging[up.localPath]]]
    /\ UNCHANGED <<now, staging, remoteFiles, fetched>>

\* the handler up to `await sftp.put(...)`.
\* enhanced: put(req.file.path, path.posix.join(remotePath, originalname));
\* fixed: put(localPath, remotePath) with both taken from the body
UploadPut(u) ==
    /\ IF variant = "enhanced"
       THEN /\ ups[u].pc = "staged"
            /\ PutCall(u, ups[u], PosixJoin(ups[u].dir, ups[u].name))
       ELSE /\ ups[u].pc = "idle"
            /\ \E f \in OwnFiles, d \in Dirs :
                  PutCall(u, [NoUpload EXCEPT !.dir = d, !.name = f[2],
                                              !.content = staging[f],
                                              !.localPath = f], d)
    /\ UNCHANGED notUpload

\* the answer after the remote write.
\* enhanced: fs.unlinkSync(localPath), which throws when the file is gone or
\* cannot be removed, then res.json({..., remotePath: remoteFilePath});
\* fixed: res.json({success, message})
AfterPut(u, unlinkOk) ==
    IF variant = "fixed"
    THEN /\ ups' = [ups EXCEPT ![u].pc = "done", ![u].wrote = TRUE,
                               ![u].status = 200]
         /\ UNCHANGED staging
    ELSE IF unlinkOk /\ staging[ups[u].localPath] # NoFile
    THEN /\ staging' = [staging EXCEPT ![ups[u].localPath] = NoFile]
         /\ ups' = [ups EXCEPT ![u].pc = "done", ![u].wrote = TRUE,
                               ![u].unlinked = TRUE, ![u].status = 200,
                               ![u].reported = ups[u].written]
    ELSE /\ ups' = [ups EXCEPT ![u].pc = "done", ![u].wrote = TRUE,
                               ![u].status = 500]
         /\ UNCHANGED staging

\* sftp.put resolved: the remote file holds what was read
UploadPutOk(u) ==
    /\ ups[u].pc = "putting"
    /\ ups[u].sending # NoFile
    /\ remoteFiles' = [remoteFiles EXCEPT ![ups[u].written] =
                          [content |-> ups[u].sending, writer |-> u]]
    /\ \E unlinkOk \in BOOLEAN : AfterPut(u, unlinkOk)
    /\ UNCHANGED <<now, fetched>>
    /\ UNCHANGED notUpload

\* sftp.put rejected: the catch block answers 500
UploadPutFail(u) ==
    /\ ups[u].pc = "putting"
    /\ ups' = [ups EXCEPT ![u].pc = "done", ![u].status = 500]
    /\ UNCHANGED <<now, staging, remoteFiles, fetched>>
    /\ UNCHANGED notUpload

\* GET /sftp/download of the path upload u reported, nothing else having
\* written that path since: res.send(await sftp.get(remotePath))
UploadedDownload(u) ==
    /\ ups[u].pc = "done"
    /\ ups[u].status = 200
    /\ ups[u].reported # NoPath
    /\ remoteFiles[ups[u].reported].writer = u
    /\ fetched' = [of |-> u, path |-> ups[u].reported,
                   data |-> remoteFiles[ups[u].reported].content]
    /\ UNCHANGED <<now, ups, staging, remoteFiles>>
    /\ UNCHANGED notUpload

----------------------------------------------------------------------------
\* The response calls of the HTTP handlers: res.json(...), res.send(...),
\* res.status(...).json(...), and the responses the proxy middleware writes

Routes == {"ip", "proxy", "connect", "list", "download", "upload", "disconnect"}

\* the basic server has no /sftp routes
RoutesOf(v) == IF v = "basic" THEN {"ip", "proxy"} ELSE Routes

\* the number of parameter checks of a route's handler, each with its own
\* `return res.status(400).json(...)`
Checks(route) ==
    CASE route = "proxy" -> IF variant = "fixed" THEN 1 ELSE 2
      [] route = "connect" -> 2
      [] route = "download" -> 1
      [] route = "upload" -> IF variant = "enhanced" THEN 2 ELSE 1
      [] OTHER -> 0

\* the routes whose handler looks :connectionId up and answers 404
HasSession(route) == route \in {"list", "download", "upload", "disconnect"}

\* the routes served by createProxyMiddleware
IsForward(route) == route = "proxy" \/ (variant = "fixed" /\ route = "ip")

\* what decides the path a handler takes before its await: the first
\* parameter check the request fails (0: it passes them all), and whether the
\* connection id resolves
HandlerInputs(route) ==
    {i \in [failed : 0..Checks(route), found : BOOLEAN] :
        ~HasSession(route) => i.found}

\* sent: the number of responses written for the request
NoHandler ==
    [pc |-> "idle", route |-> "", failed |-> 0, found |-> FALSE,
     upstream |-> 0, threw |-> FALSE, sent |-> 0, status |-> 0]

\* one response call
Send(h, status) == [h EXCEPT !.pc = "done", !.sent = @ + 1, !.status = status]

\* catch (error) { res.status(500).json({...}) }
Catch(h) == Send([h EXCEPT !.threw = TRUE], 500)

\* the handler from its first statement to its first await or its return
Enter(route, i) ==
    LET h == [NoHandler EXCEPT !.route = route, !.failed = i.failed,
                               !.found = i.found]
    IN IF i.failed > 0 THEN Send(h, 400)
       ELSE IF HasSession(route) /\ ~i.found THEN Send(h, 404)
       ELSE [h EXCEPT !.pc = "await"]

\* a handler that answers before the last statement of its try block
AfterAwaitSendFirst(h, throws) ==
    IF throws THEN Catch(Send(h, 200)) ELSE Send(h, 200)

\* the statements of the try block after the awaited call resolved: each one
\* before the response call can throw (fs.unlinkSync, response.json(),
\* remotePath.split), the response call is the last one
AfterAwait(h, throws) ==
    IF throws THEN Catch(h) ELSE Send(h, 200)

\* the fixed /ip's onProxyRes: res.json({...})
OnProxyRes(h) ==
    IF variant = "fixed" /\ h.route = "ip" THEN Send(h, 200) ELSE h

\* the middleware after the 'proxyRes' event: it writes the target's status
\* line and pipes the body unless the response is already finished
Pipe(h, st) == IF h.sent > 0 THEN h ELSE Send(h, st)

\* the 'error' event of the proxy: onError's res.status(500).json, or, with
\* no onError option (the fixed /ip), the middleware's own error response
ProxyFailure(h) ==
    IF variant = "fixed" /\ h.route = "ip" THEN Send(h, 504) ELSE Send(h, 500)

\* the requests of a run, served concurrently
Inflight == 1..MaxInflight

\* request k arrives and its handler runs
HandlerRequest(k) ==
    /\ hd[k].pc = "idle"
    /\ \E route \in RoutesOf(variant) :
        \E i \in HandlerInputs(route) : hd' = [hd EXCEPT ![k] = Enter(route, i)]
    /\ UNCHANGED notHandlers

\* the awaited call resolved, or the target answered the forwarded request
HandlerResolves(k) ==
    /\ hd[k].pc = "await"
    /\ IF IsForward(hd[k].route)
       THEN \E st \in UpstreamStatuses :
                hd' = [hd EXCEPT ![k] =
                          Pipe(OnProxyRes([hd[k] EXCEPT !.upstream = st]), st)]
       ELSE \E throws \in BOOLEAN :
                hd' = [hd EXCEPT ![k] = AfterAwait(hd[k], throws)]
    /\ UNCHANGED notHandlers

\* the awaited call rejected, or the forwarded request failed
HandlerRejects(k) ==
    /\ hd[k].pc = "await"
    /\ hd' = [hd EXCEPT ![k] = IF IsForward(hd[k].route) THEN ProxyFailure(hd[k])
                                ELSE Catch(hd[k])]
    /\ UNCHANGED notHandlers

----------------------------------------------------------------------------
\* netlify/functions/proxy.js: exports.handler(event, context)

HttpMethods == {"OPTIONS", "POST", "GET"}

\* event.body: none (null or ''), a string that is not JSON, the JSON text
\* null, or the JSON text of an object
BodyKinds == {"none", "unparsable", "null", "object"}

\* the string of no characters
NoUrl == [scheme |-> "", host |-> "", path |-> "", query |-> ""]

\* hasTargetUrl: the body object has a targetUrl member; targetUrl: its value
Events ==
    {e \in [httpMethod : HttpMethods, body : BodyKinds, hasTargetUrl : BOOLEAN,
            targetUrl : UrlStrings] :
        /\ e.body # "object" => ~e.hasTargetUrl
        /\ ~e.hasTargetUrl => e.targetUrl = NoUrl}

\* JSON.parse(event.body) throws a SyntaxError
BodyUnparsable(e) == e.body = "unparsable"

\* const { targetUrl, ... } = requestBody throws a TypeError: requestBody is
\* null
DestructureThrows(e) == e.body = "null"

\* !targetUrl
NoTargetUrl(e) == ~e.hasTargetUrl \/ IsEmpty(e.targetUrl)

\* a JSON value
NoValue == [type |-> "undefined", val |-> ""]
StringValue(text) == [type |-> "string", val |-> text]

\* the texts a response body can be
ObjectText == "{\"origin\":\"52.59.103.54\"}"
Texts == {ObjectText, "null", "42", "<html>", ""}

\* JSON.parse(text) returns
JsonParses(text) == text \in {ObjectText, "null", "42"}

JsonParse(text) ==
    CASE text = ObjectText -> [type |-> "object", val |-> "origin: 52.59.103.54"]
      [] text = "null" -> [type |-> "null", val |-> ""]
      [] text = "42" -> [type |-> "number", val |-> "42"]

ParsedDataNoFallback(text) ==
    IF JsonParses(text) THEN JsonParse(text) ELSE NoValue

\* try { parsedData = JSON.parse(responseData) } catch { parsedData =
\* responseData }
ParsedData(text) ==
    IF JsonParses(text) THEN JsonParse(text) ELSE StringValue(text)

\* body: the function's response body: '' or the JSON text of an object with
\* these members (hasSuccess: the object has a success member)
NoInvocation ==
    [pc |-> "idle", event |-> [httpMethod |-> "", body |-> "none",
                               hasTargetUrl |-> FALSE, targetUrl |-> NoUrl],
     parsed |-> FALSE, fetches |-> 0, upstream |-> 0, text |-> "",
     statusCode |-> 0, body |-> "", hasSuccess |-> FALSE, success |-> FALSE,
     error |-> "", message |-> "", data |-> NoValue]

Return(inv, statusCode) ==
    [inv EXCEPT !.pc = "done", !.statusCode = statusCode]

ReturnError(inv, statusCode, error, message) ==
    [Return(inv, statusCode) EXCEPT !.body = "json", !.error = error,
                                     !.message = message]

\* the catch block of the handler
Caught(inv) ==
    [ReturnError(inv, 500, "Proxy request failed", "error.message")
        EXCEPT !.hasSuccess = TRUE, !.success = FALSE]

\* the handler runs up to its first await or to its return
Handler(e) ==
    LET inv == [NoInvocation EXCEPT !.event = e]
        read == [inv EXCEPT !.parsed = (e.body # "none")]
    IN IF e.httpMethod = "OPTIONS" THEN Return(inv, 200)
       ELSE IF BodyUnparsable(e) \/ DestructureThrows(e) THEN Caught(read)
       ELSE IF NoTargetUrl(e)
            THEN ReturnError(read, 400, "targetUrl is required",
                             "Please provide a target URL in the request body")
       ELSE IF ~UrlParses(e.targetUrl)
            THEN ReturnError(read, 400, "Invalid URL format",
                             "Please provide a valid URL")
       ELSE [read EXCEPT !.pc = "fetching", !.fetches = 1]

NetlifyInvoke ==
    /\ fn.pc \in {"idle", "done"}
    /\ \E e \in Events : fn' = Handler(e)
    /\ UNCHANGED notNetlify

\* a function that reports success: response.ok
NetlifyResponseOk ==
    /\ fn.pc = "fetching"
    /\ \E st \in UpstreamStatuses, text \in Texts :
        fn' = [Return(fn, st) EXCEPT !.upstream = st, !.text = text,
                                     !.body = "json", !.hasSuccess = TRUE,
                                     !.success = (st < 400),
                                     !.data = ParsedData(text)]
    /\ UNCHANGED notNetlify

\* await fetch(...) and await response.text() resolved
NetlifyResponse ==
    /\ fn.pc = "fetching"
    /\ \E st \in UpstreamStatuses, text \in Texts :
        fn' = [Return(fn, st) EXCEPT !.upstream = st, !.text = text,
                                     !.body = "json", !.hasSuccess = TRUE,
                                     !.success = TRUE,
                                     !.data = ParsedData(text)]
    /\ UNCHANGED notNetlify

\* await fetch(...) or await response.text() rejected
NetlifyFetchFails ==
    /\ fn.pc = "fetching"
    /\ fn' = Caught(fn)
    /\ UNCHANGED notNetlify

----------------------------------------------------------------------------
\* client-side-proxy.js: class ProxyService

\* what await fetch(...) gives makeRequest: a rejection, or a response with a
\* status and a body; the body is not JSON, the JSON text null, or the JSON
\* text of an object with these members
ClientStatuses == {200, 400, 500}
Messages == {Absent, "upstream message"}
DataValues == {NoValue, JsonParse(ObjectText)}
ResponseBodies ==
    [kind : {"unparsable", "null"}, success : {FALSE}, message : {Absent},
     data : {NoValue}]
    \cup [kind : {"object"}, success : BOOLEAN, message : Messages,
          data : DataValues]
FetchOutcomes ==
    [kind : {"rejected"}, status : {0}, body : {CHOOSE b \in ResponseBodies :
                                                    b.kind = "null"}]
    \cup [kind : {"response"}, status : ClientStatuses, body : ResponseBodies]

\* response.ok
Ok(status) == status >= 200 /\ status <= 299

FailedPrefix == "Proxy request failed: "

\* `${response.status}`
StatusText(status) ==
    CASE status = 200 -> "200" [] status = 400 -> "400" [] status = 500 -> "500"

\* x || y for a string member that may be absent
OrElse(x, y) == IF x = Absent \/ x = "" THEN y ELSE x

\* error.message of what the try block of makeRequest throws, <<>> when it
\* returns
Thrown(o) ==
    IF o.kind = "rejected" THEN <<"fetch failed">>
    ELSE IF o.body.kind = "unparsable" THEN <<"Unexpected token">>
    ELSE IF o.body.kind = "null" THEN <<"Cannot read properties of null">>
    ELSE IF ~Ok(o.status)
         THEN <<"HTTP ", StatusText(o.status), ": ", OrElse(o.body.message, "statusText")>>
    ELSE IF ~o.body.success
         THEN <<OrElse(o.body.message, "Proxy request failed")>>
    ELSE <<>>

NoCall ==
    [pc |-> "idle", op |-> "", outcome |-> [kind |-> "rejected", status |-> 0,
        body |-> CHOOSE b \in ResponseBodies : b.kind = "null"],
     result |-> "", data |-> NoValue, available |-> FALSE, message |-> <<>>]

MakeRequestUnwrapped(c, o) ==
    IF Thrown(o) = <<>>
    THEN [c EXCEPT !.result = "returned", !.data = o.body.data]
    ELSE [c EXCEPT !.result = "threw", !.message = Thrown(o)]

\* makeRequest(targetUrl, options) after its await
MakeRequest(c, o) ==
    IF Thrown(o) = <<>>
    THEN [c EXCEPT !.result = "returned", !.data = o.body.data]
    ELSE [c EXCEPT !.result = "threw", !.message = <<FailedPrefix>> \o Thrown(o)]

\* isAvailable() after its await of get(), which is makeRequest
IsAvailable(c, o) ==
    [c EXCEPT !.result = "returned",
              !.available = (MakeRequest(c, o).result = "returned")]

ClientOps == {"makeRequest", "isAvailable"}

ClientCall ==
    /\ call.pc \in {"idle", "done"}
    /\ \E op \in ClientOps : call' = [NoCall EXCEPT !.pc = "awaiting", !.op = op]
    /\ UNCHANGED notClient

\* the awaited fetch settles and the call runs to its end
ClientSettles ==
    /\ call.pc = "awaiting"
    /\ \E o \in FetchOutcomes :
        LET c == [call EXCEPT !.pc = "done", !.outcome = o]
        IN call' = IF call.op = "makeRequest" THEN MakeRequest(c, o)
                   ELSE IsAvailable(c, o)
    /\ UNCHANGED notClient

----------------------------------------------------------------------------
\* GET /sftp/list/:connectionId on a registered session

\* the entries sftp.list resolves with: name, size and the rest (longname,
\* owner, group) of each
EntryNames == {"a.csv", "b.csv", "c.csv"}
Entries == [name : EntryNames, size : {1}, longname : {"-rw-r--r-- 1 ..."}]
Listings == UNION {[1..n -> Entries] : n \in 0..MaxEntries}

\* req.query.path, '.' when absent
ListPaths == {".", "/in"}

\* enhanced: files.map(file => ({name, type, size, modifyTime, accessTime,
\* rights})); fixed: files
Returned(files) ==
    IF variant = "enhanced"
    THEN [i \in 1..Len(files) |->
            [name |-> files[i].name, size |-> files[i].size, longname |-> ""]]
    ELSE files

NamesOf(files) == [i \in 1..Len(files) |-> files[i].name]

\* hasCount: the response body has a count member
NoList ==
    [pc |-> "idle", path |-> "", remote |-> <<>>, files |-> <<>>,
     hasCount |-> FALSE, count |-> 0, status |-> 0]

\* up to `await sftp.list(path)`
ListGet ==
    /\ ls.pc # "listing"
    /\ \E path \in ListPaths : ls' = [NoList EXCEPT !.pc = "listing", !.path = path]
    /\ UNCHANGED notList

\* sftp.list resolved: res.json({success: true, files, ...})
ListSend ==
    /\ ls.pc = "listing"
    /\ \E files \in Listings :
        ls' = [ls EXCEPT !.pc = "sent", !.remote = files,
                         !.files = Returned(files),
                         !.hasCount = (variant = "fixed"),
                         !.count = IF variant = "fixed" THEN Len(files) ELSE 0,
                         !.status = 200]
    /\ UNCHANGED notList

\* sftp.list rejected: the catch block answers 500
ListFail ==
    /\ ls.pc = "listing"
    /\ ls' = [ls EXCEPT !.pc = "failed", !.status = 500]
    /\ UNCHANGED notList

----------------------------------------------------------------------------
\* the requests of a run: MaxReqs of them, and one more in the run of a race
Reqs == 1..(MaxReqs + 1)

\* the server has started and has served no request; the callers send `requests`
\* requests to one of `variants`
Start(variants, requests) ==
    /\ variant \in variants
    /\ now = 0
    /\ allocated = (variant = "fixed")
    /\ sftpConnections = <<>>
    /\ reqs = [r \in Reqs |-> Idle]
    /\ quota = requests
    /\ started = 0
    /\ ended = {}
    /\ closeCalls = [c \in Clients |-> 0]
    /\ drain = DrainOff
    /\ lastResp = NoResp
    /\ lastIn = NoInput
    /\ lastLog = NoLog
    /\ lastConfig = NoConfig
    /\ issued = {}
    /\ closedIds = {}
    /\ opened = 0
    /\ closed = 0
    /\ atSignal = <<>>
    /\ preq = NoProxyRequest
    /\ outbound = <<>>
    /\ dl = NoDownload
    /\ ups = [u \in Uploads |-> NoUpload]
    /\ staging = [f \in LocalFiles |-> IF f \in OwnFiles THEN OwnContent ELSE NoFile]
    /\ remoteFiles = [q \in UploadTargets |-> NoRemoteFile]
    /\ fetched = NoFetch
    /\ fn = NoInvocation
    /\ call = NoCall
    /\ ls = NoList
    /\ hd = [k \in Inflight |-> NoHandler]

InitSftp == Start(SftpVariants, MaxReqs)

NextSftp ==
    \/ \E r \in Reqs : Connect(r)
    \/ \E r \in Reqs : ConnectRetry(r)
    \/ \E r \in Reqs : ConnectOk(r)
    \/ \E r \in Reqs : ConnectFail(r)
    \/ \E r \in Reqs : List(r)
    \/ \E r \in Reqs : Download(r)
    \/ \E r \in Reqs : Upload(r)
    \/ \E r \in Reqs : OpOk(r)
    \/ \E r \in Reqs : OpFail(r)
    \/ \E r \in Reqs : Disconnect(r)
    \/ \E r \in Reqs : DisconnectOk(r)
    \/ \E r \in Reqs : DisconnectFail(r)
    \/ Sigint
    \/ DrainCloseOk
    \/ DrainCloseFail

SpecSftp == InitSftp /\ [][NextSftp]_vars

InitProxy == Start(Variants, MaxReqs)

NextProxy ==
    \/ ProxyRequest
    \/ TargetResponds
    \/ ProxyResponse
    \/ ProxyError
    \/ ProxyTimeout

SpecProxy == InitProxy /\ [][NextProxy]_vars

NextDownload ==
    \/ DownloadGet
    \/ DownloadSend
    \/ DownloadGetFail

SpecDownload == InitSftp /\ [][NextDownload]_vars

NextUpload ==
    \/ \E u \in Uploads : UploadStage(u)
    \/ \E u \in Uploads : UploadPut(u)
    \/ \E u \in Uploads : UploadPutOk(u)
    \/ \E u \in Uploads : UploadPutFail(u)
    \/ \E u \in Uploads : UploadedDownload(u)

SpecUpload == InitSftp /\ [][NextUpload]_vars

\* a list and a disconnect of one session, with the connects around them
NextRace ==
    \/ \E r \in Reqs : Connect(r)
    \/ \E r \in Reqs : ConnectOk(r)
    \/ \E r \in Reqs : List(r)
    \/ \E r \in Reqs : OpOk(r)
    \/ \E r \in Reqs : OpFail(r)
    \/ \E r \in Reqs : Disconnect(r)
    \/ \E r \in Reqs : DisconnectOk(r)
    \/ \E r \in Reqs : DisconnectFail(r)

InitRace == Start(SftpVariants, MaxReqs + 1)

SpecRace == InitRace /\ [][NextRace]_vars

\* the handlers and the periodic callback of the fixed server
NextTick ==
    \/ NextSftp
    \/ Tick

SpecTick == InitSftp /\ [][NextTick]_vars

NextHandlers ==
    \/ \E k \in Inflight : HandlerRequest(k)
    \/ \E k \in Inflight : HandlerResolves(k)
    \/ \E k \in Inflight : HandlerRejects(k)

SpecHandlers == InitProxy /\ [][NextHandlers]_vars

NextList ==
    \/ ListGet
    \/ ListSend
    \/ ListFail

SpecList == InitSftp /\ [][NextList]_vars

NextNetlify ==
    \/ NetlifyInvoke
    \/ NetlifyResponse
    \/ NetlifyFetchFails

SpecNetlify == InitProxy /\ [][NextNetlify]_vars

NextClient ==
    \/ ClientCall
    \/ ClientSettles

SpecClient == InitProxy /\ [][NextClient]_vars

\* the proxyTimeout timer fires when it is armed, and the proxy middleware
\* passes on a response it has received; the target and the network owe
\* nothing
SpecProxyLive ==
    SpecProxy /\ WF_vars(ProxyTimeout) /\ WF_vars(ProxyResponse)

----------------------------------------------------------------------------
\* Session lifecycle properties

SessionKinds == {"list", "download", "upload", "disconnect"}

\* C1: once a disconnect of a registered id has returned, with a success
\* response or with the error response of a failed close, the id is no longer
\* in the registry.
C1_DisconnectAlwaysRemoves ==
    (lastResp.kind = "disconnect" /\ lastResp.status \in {200, 500}
        /\ lastResp.id \in issued)
    => lastResp.id \notin Keys

\* C2: no registry entry is lost or duplicated: the number of entries is the
\* number of connects that returned success minus the number of disconnects
\* that returned success, and no client is registered twice.
C2_NoEntryLostOrDuplicated ==
    /\ Len(sftpConnections) = opened - closed
    /\ Cardinality(RegisteredClients) = Len(sftpConnections)

\* C3: any two connects that succeed return distinct ids: as many distinct
\* ids were returned as connects succeeded.
C3_DistinctIds == Cardinality(issued) = opened

\* C4: after a disconnect of an id returned success, the id is never findable
\* again: the lookup that list, download, upload and disconnect start with
\* finds nothing, so each of them answers 404.
C4_NoResurrection == \A id \in closedIds : Lookup(id) = Undefined

\* C5: a connect whose underlying connection fails answers 500 and leaves
\* the registry as it was, and the client of a connect that has not succeeded
\* is never in the registry.
C5_FailedConnectNotRegistered ==
    /\ [][\A r \in Reqs :
            (reqs[r].pc = "awaitConnect" /\ reqs'[r].pc = "done"
                /\ lastResp'.status # 200)
            => /\ lastResp'.kind = "connect"
               /\ lastResp'.status = 500
               /\ lastResp'.error = "SFTP connection failed"
               /\ sftpConnections' = sftpConnections
               /\ issued' = issued]_vars
    /\ [](\A r \in Reqs : reqs[r].pc = "awaitConnect" => r \notin RegisteredClients)

\* a connect failed while another session was registered
C5_Witness ==
    /\ lastResp.kind = "connect"
    /\ lastResp.status = 500
    /\ Len(sftpConnections) >= 1

\* C6: list, download, upload and disconnect with an id that no connect
\* returned (and the parameters they require) answer 404 "Connection not
\* found", the answer given for a disconnected id.
C6_UnknownIdNotFound ==
    (lastResp.kind \in SessionKinds /\ lastResp.id \notin issued
        /\ lastResp.status # 400)
    => (lastResp.status = 404 /\ lastResp.error = "Connection not found")

C8_RegistryEmptyAtExit == Exited => Len(sftpConnections) = 0

\* C14: a connect request makes at most one underlying connection attempt.
C14_SingleAttempt == \A r \in Reqs : reqs[r].attempts <= 1

\* C15: a connect without host or without username is answered 400 (missing
\* fields), and one with both but with neither password nor privateKey is
\* answered 400 (authentication required); the step that answers 400 makes
\* no connection attempt and leaves the registry as it was.
C15_ConnectValidation ==
    /\ [](lastIn.kind = "connect" =>
            /\ (~lastIn.host \/ ~lastIn.username)
                => /\ lastResp.kind = "connect"
                   /\ lastResp.status = 400
                   /\ lastResp.error = MissingFieldsError
            /\ (lastIn.host /\ lastIn.username
                    /\ ~lastIn.password /\ ~lastIn.privateKey)
                => /\ lastResp.kind = "connect"
                   /\ lastResp.status = 400
                   /\ lastResp.error = "Authentication required")
    /\ [][(lastResp'.kind = "connect" /\ lastResp'.status = 400)
            => /\ sftpConnections' = sftpConnections
               /\ issued' = issued
               /\ \A r \in Reqs : reqs'[r].attempts <= reqs[r].attempts]_vars

\* a connect without password and key was refused while a session was
\* registered
C15_Witness ==
    /\ lastIn.kind = "connect"
    /\ lastIn.host /\ lastIn.username
    /\ ~lastIn.password /\ ~lastIn.privateKey
    /\ lastResp.status = 400
    /\ Len(sftpConnections) >= 1

\* C16: a connect never returns an id that was removed from the registry
\* before.
C16_NoIdReuse ==
    (lastResp.kind = "connect" /\ lastResp.status = 200)
    => lastResp.id \notin closedIds

\* C18: a download with a registered connection id is answered 400 only when
\* its ?path= parameter is absent or empty.
C18_DownloadPathParameter ==
    (lastResp.kind = "download" /\ lastResp.status = 400 /\ lastResp.id \in Keys)
    => ~lastIn.path

\* C19: a download without a remote path is answered 400, and so is an
\* upload without a content payload or without a destination path; the step
\* that answers 400 starts no remote operation and leaves the registry as it
\* was.
C19_MissingPathRejected ==
    /\ []((lastIn.kind = "download" /\ ~lastIn.path /\ ~lastIn.remotePath)
            => /\ lastResp.kind = "download"
               /\ lastResp.status = 400
               /\ lastResp.error = MissingPathError)
    /\ []((lastIn.kind = "upload"
                /\ \/ ~lastIn.file /\ ~lastIn.localPath
                   \/ ~lastIn.path /\ ~lastIn.remotePath)
            => (lastResp.kind = "upload" /\ lastResp.status = 400))
    /\ [][(lastResp'.kind \in {"download", "upload"} /\ lastResp'.status = 400)
            => /\ sftpConnections' = sftpConnections
               /\ closeCalls' = closeCalls
               /\ \A r \in Reqs :
                    reqs'[r].pc = "awaitOp" => reqs[r].pc = "awaitOp"]_vars

\* an upload with content and no destination path, on a registered session,
\* was refused
C19_Witness ==
    /\ lastIn.kind = "upload"
    /\ lastIn.file /\ lastIn.localPath
    /\ ~lastIn.path /\ ~lastIn.remotePath
    /\ lastResp.status = 400
    /\ lastResp.id \in Keys

\* C20: the filename a successful download puts in Content-Disposition is
\* the final segment of the remote path, and it is the same whichever of the
\* two servers' derivations is applied to the path.
C20_SameFilename ==
    dl.pc = "sent"
    => /\ dl.filename = Basename(dl.remotePath)
       /\ dl.filename = SplitPop(dl.remotePath)

\* C31: in a download the Content-Disposition and Content-Type headers are
\* set only after the remote read has completed successfully, and a failed
\* remote read is answered with a 500 JSON error, never with binary content.
C31_HeadersAfterRead ==
    /\ dl.headers # {} => dl.read = "ok"
    /\ dl.read = "failed" => (dl.status = 500 /\ dl.body = "json")
    /\ dl.body = "binary" => dl.read = "ok"

C31_Witness ==
    /\ dl.pc = "failed" /\ dl.read = "failed"
    /\ dl.status = 500 /\ dl.headers = {}

\* C32: the config that a connect hands to sftp.connect has exactly one of
\* password and privateKey: the password when a non-empty password was
\* supplied, with or without a key, and otherwise the key.
C32_OneCredential ==
    lastConfig # NoConfig
    => /\ lastConfig.password # lastConfig.privateKey
       /\ lastIn.password => lastConfig.password
       /\ ~lastIn.password => lastConfig.privateKey

C32_Witness ==
    /\ lastIn.kind = "connect" /\ lastIn.password /\ lastIn.privateKey
    /\ lastConfig.password /\ ~lastConfig.privateKey

\* C33: a list on a known session returns the entries in the order in which
\* the remote side reported them, and the count field of the response is
\* the number of entries returned.
C33_ListOrderAndCount ==
    ls.pc = "sent"
    => /\ NamesOf(ls.files) = NamesOf(ls.remote)
       /\ ls.hasCount /\ ls.count = Len(ls.files)

\* C21: a successful upload has written to the POSIX join of the destination
\* directory and the original filename, and reports that path as remotePath,
\* in every server variant.
C21_UploadPathJoined ==
    \A u \in Uploads :
        (ups[u].pc = "done" /\ ups[u].status = 200)
        => /\ ups[u].written = PosixJoin(ups[u].dir, ups[u].name)
           /\ ups[u].reported = ups[u].written

\* C22: an upload whose remote write succeeded answers success, also when
\* the staged copy could not be deleted; and after a successful upload that
\* deleted its staged copy, the copy does not exist.
C22_StagingCleanup ==
    \A u \in Uploads :
        /\ (ups[u].pc = "done" /\ ups[u].wrote) => ups[u].status = 200
        /\ (ups[u].pc = "done" /\ ups[u].unlinked
                /\ \A v \in Uploads \ {u} : ups[v].localPath # ups[u].localPath)
            => staging[ups[u].localPath] = NoFile

\* C23: the download of the path that a successful upload reported, no other
\* operation having written that path since, returns the content that was
\* uploaded.
C23_RoundTrip == fetched.of # 0 => fetched.data = ups[fetched.of].content

\* C24: every response with status 400, 404 or 500 that an /sftp handler
\* sends has a body with an error field and a message field (the same is
\* asked of the /proxy handler).
C24_ErrorAndMessage ==
    lastResp.status \in {400, 404, 500}
    => (lastResp.error # "" /\ lastResp.message # "")

\* C25: a periodic tick logs the current size of the registry and changes
\* neither the registry nor any session, and a session leaves the registry
\* only in the step in which a disconnect of it returns success.
C25_TickOnlyReports ==
    [][/\ lastLog' # NoLog
            => /\ lastLog' = Len(sftpConnections)
               /\ UNCHANGED <<sftpConnections, ended, closeCalls, reqs>>
       /\ \A c \in RegisteredClients :
            c \notin RegisteredClients'
            => (lastResp'.kind = "disconnect" /\ lastResp'.status = 200)]_vars

\* C30: when a list and a disconnect of the same live session overlap, the
\* list is answered with success, with 404 or with 500, and when the close
\* succeeded the id is not in the registry once both have returned: neither
\* at the step in which the disconnect returns success nor at the step in
\* which a list of the disconnected session returns.
C30_ListDisconnectRace ==
    [][/\ lastResp'.kind = "list" => lastResp'.status \in {200, 404, 500}
       /\ (lastResp'.kind = "disconnect" /\ lastResp'.status = 200)
            => lastResp'.id \notin Keys'
       /\ \A r \in Reqs :
            (/\ reqs[r].pc = "awaitOp" /\ reqs[r].kind = "list"
             /\ reqs'[r].pc = "done"
             /\ reqs[r].client \in ended /\ reqs[r].arg \in closedIds)
            => reqs[r].arg \notin Keys']_vars

\* C34: the connection of a session is closed at most once, whatever the
\* interleaving of disconnect requests and the shutdown drain: end() is
\* called at most once on each client.
C34_ClosedAtMostOnce == \A c \in Clients : closeCalls[c] <= 1

\* C35: while a disconnect of an id is awaiting the close, the id does not
\* resolve to the handle being closed, so no list, download or upload can
\* start a remote operation on it.
C35_ClosingNotResolvable ==
    \A r \in Reqs :
        (reqs[r].kind = "disconnect" /\ reqs[r].pc = "awaitEnd")
        => Lookup(reqs[r].arg) # reqs[r].client

C37_NoEntrySkipped ==
    Exited => \A i \in 1..Len(sftpConnections) :
                  closeCalls[sftpConnections[i].client] >= 1

\* a session registered after the signal is in the registry at exit, and its
\* only close call came from the drain (no disconnect was requested for it)
C37_Witness ==
    /\ Exited
    /\ \E i \in 1..Len(sftpConnections) :
          /\ \A j \in 1..Len(atSignal) : atSignal[j] # sftpConnections[i]
          /\ closeCalls[sftpConnections[i].client] = 1
          /\ sftpConnections[i].id \notin closedIds
    /\ Len(atSignal) >= 1

C38_AtMostOneResponse ==
    \A k \in Inflight :
        /\ hd[k].sent <= 1
        /\ hd[k].pc = "await" => hd[k].sent = 0

\* a statement after the await of an upload threw and the catch block's 500
\* is its only response, while another request awaits
C38_Witness ==
    \E k \in Inflight :
        /\ hd[k].route = "upload"
        /\ hd[k].pc = "done"
        /\ hd[k].threw
        /\ hd[k].found
        /\ hd[k].status = 500
        /\ hd[k].sent = 1
        /\ \E j \in Inflight \ {k} : hd[j].pc = "await"

----------------------------------------------------------------------------
\* Forwarding properties

\* C9: a /proxy request whose url parameter is empty, has no scheme or does
\* not parse as a URL is answered 400 by the handler, before any forward and
\* without an outbound request, in every server variant. (A method the
\* variant routes nowhere is left aside.)
C9_InvalidTargetRejected ==
    (preq.pc # "idle" /\ ~UrlParses(preq.url)
        /\ ~(variant = "fixed" /\ preq.method # "GET"))
    => (preq.pc = "done" /\ preq.status = 400 /\ outbound = <<>>)

C11_StatusPassthrough ==
    /\ (preq.pc = "done" /\ preq.upstream # 0) => preq.status = preq.upstream
    /\ (preq.pc = "done" /\ preq.error = "Proxy error")
        => (preq.cause # "" /\ preq.upstream = 0)

\* the target answered 404 to a forward of a valid URL and the caller got 404
C11_Witness ==
    /\ preq.pc = "done"
    /\ UrlParses(preq.url)
    /\ preq.upstream = 404
    /\ preq.status = 404

\* C12: a request to /proxy with a valid target URL is forwarded to the
\* target with the method of the request, for each of GET, POST, PUT, DELETE
\* and PATCH, in every server variant.
C12_EveryMethodForwarded ==
    (preq.pc # "idle" /\ UrlParses(preq.url))
    => (Len(outbound) = 1 /\ outbound[1].method = preq.method)

\* C13: when the outbound request fails at transport level the caller gets
\* 500 with a body that carries the message of the underlying error, and one
\* outbound request was made, no second one.
C13_TransportFailureReported ==
    (preq.pc = "done" /\ preq.cause # "")
    => /\ preq.status = 500
       /\ preq.error = "Proxy error"
       /\ preq.message = preq.cause \/ preq.details = preq.cause
       /\ Len(outbound) = 1

\* a connection failure has been reported to the caller
C13_Witness ==
    /\ preq.pc = "done"
    /\ preq.cause \in Causes
    /\ preq.status = 500

\* C17: a forward does not stay pending: unless the target answers, the
\* request ends with the proxy's error response, in every server variant.
C17_ForwardEnds ==
    (preq.pc = "forwarding")
    ~> (preq.pc = "responded" \/ (preq.pc = "done" /\ preq.status = 500))

\* C26: the path and query that the target receives are exactly the path
\* and query of the target URL: neither the /proxy prefix nor the proxy's own
\* url= parameter is appended.
C26_TargetReceivesOwnPath ==
    \A i \in 1..Len(outbound) :
        outbound[i].path = TargetPath(outbound[i].target)

----------------------------------------------------------------------------
\* Properties of the Netlify function and of the client's ProxyService

C28_FunctionValidation ==
    fn.pc = "done"
    => /\ fn.event.httpMethod = "OPTIONS"
            => (fn.statusCode = 200 /\ fn.body = "" /\ ~fn.parsed
                    /\ fn.fetches = 0)
       /\ (fn.event.httpMethod # "OPTIONS" /\ ~BodyUnparsable(fn.event)
                /\ NoTargetUrl(fn.event))
            => (fn.statusCode = 400 /\ fn.fetches = 0)
       /\ (fn.event.httpMethod # "OPTIONS" /\ ~NoTargetUrl(fn.event)
                /\ ~UrlParses(fn.event.targetUrl))
            => (fn.statusCode = 400 /\ fn.fetches = 0)

\* C29: makeRequest returns result.data only when the response is ok and
\* result.success holds, and otherwise throws an Error whose message starts
\* with 'Proxy request failed: '; isAvailable never throws and returns true
\* exactly when its probe request succeeded.
C29_ClientOutcome ==
    LET o == call.outcome
        good == /\ o.kind = "response" /\ Ok(o.status)
                /\ o.body.kind = "object" /\ o.body.success
    IN call.pc = "done"
       => /\ call.op = "makeRequest"
            => /\ call.result = "returned" <=> good
               /\ call.result = "returned" => call.data = o.body.data
               /\ call.result # "returned"
                    => (call.result = "threw" /\ Len(call.message) > 1
                            /\ Head(call.message) = FailedPrefix)
          /\ call.op = "isAvailable"
            => (call.result = "returned" /\ (call.available <=> good))

C29_Witness ==
    /\ call.pc = "done" /\ call.op = "makeRequest"
    /\ call.outcome.kind = "response" /\ call.outcome.status = 200
    /\ call.outcome.body.kind = "object" /\ ~call.outcome.body.success
    /\ call.result = "threw" /\ Head(call.message) = FailedPrefix

====
